---- MODULE Spec2Model ----
(***************************************************************************)
(* Index management of the Platonic RAG assistant:                         *)
(*   utils/vectorstore_handler.py  (registry, corpus cache, index manager) *)
(*   utils/json_ingestor.py        (corpus loader)                         *)
(*   utils/pdf_handler.py          (text extraction, chunker)              *)
(*   utils/sidebar_handler.py      (Submit handler)                        *)
(*                                                                         *)
(* Strings the code transforms character by character (provider names,     *)
(* paths, collection names) are sequences of one-character strings.        *)
(* Strings the code only concatenates or compares are TLA+ strings.        *)
(* An Optional value is a sequence of length at most one.                  *)
(***************************************************************************)
EXTENDS Integers, Sequences, FiniteSets, TLC

None == <<>>
Some(x) == <<x>>

Min(a, b) == IF a <= b THEN a ELSE b

(***************************************************************************)
(* Python str operations used by the code                                  *)
(***************************************************************************)
UpperCase == <<"A","B","C","D","E","F","G","H","I","J","K","L","M",
               "N","O","P","Q","R","S","T","U","V","W","X","Y","Z">>
LowerCase == <<"a","b","c","d","e","f","g","h","i","j","k","l","m",
               "n","o","p","q","r","s","t","u","v","w","x","y","z">>
Digits == {"0","1","2","3","4","5","6","7","8","9"}

\* str.lower() and str.isalnum() are Unicode-aware: a sample of the letters
\* outside ASCII with their lower-case forms, and of the characters that are
\* alphanumeric and have no other case
UpperOther == <<"É","Ñ","Ú">>
LowerOther == <<"é","ñ","ú">>
AlnumOther == {"ß","²","µ"}

Range(s) == {s[i] : i \in DOMAIN s}

\* str.lower() on one character
lower_char(c) ==
    IF \E i \in DOMAIN UpperCase : UpperCase[i] = c
    THEN LowerCase[CHOOSE i \in DOMAIN UpperCase : UpperCase[i] = c]
    ELSE IF \E i \in DOMAIN UpperOther : UpperOther[i] = c
    THEN LowerOther[CHOOSE i \in DOMAIN UpperOther : UpperOther[i] = c]
    ELSE c

\* str.lower()
lower(s) == [i \in DOMAIN s |-> lower_char(s[i])]

\* str.replace(a, b) for one-character a and b
replace(s, a, b) == [i \in DOMAIN s |-> IF s[i] = a THEN b ELSE s[i]]

\* str.isalnum() on one character
isalnum(c) ==
    c \in Range(UpperCase) \cup Range(LowerCase) \cup Digits \cup
          Range(UpperOther) \cup Range(LowerOther) \cup AlnumOther

\* "".join(c for c in s if keep(c))
RECURSIVE join_if_valid(_)
join_if_valid(s) ==
    IF s = <<>> THEN <<>>
    ELSE (IF isalnum(Head(s)) \/ Head(s) \in {".", "_", "-"}
          THEN <<Head(s)>> ELSE <<>>) \o join_if_valid(Tail(s))

\* str.lstrip(chars) / str.rstrip(chars) / str.strip(chars)
RECURSIVE lstrip(_, _)
lstrip(s, chars) ==
    IF s # <<>> /\ Head(s) \in chars THEN lstrip(Tail(s), chars) ELSE s

RECURSIVE rstrip(_, _)
rstrip(s, chars) ==
    IF s # <<>> /\ s[Len(s)] \in chars
    THEN rstrip(SubSeq(s, 1, Len(s) - 1), chars) ELSE s

strip(s, chars) == rstrip(lstrip(s, chars), chars)

(***************************************************************************)
(* Provider names                                                          *)
(***************************************************************************)
SpanishLLM == <<"S","p","a","n","i","s","h"," ","L","L","M">>
Groq == <<"G","r","o","q">>
Gemini == <<"G","e","m","i","n","i">>

\* utils/config.py MODEL_OPTIONS keys
MODEL_OPTIONS == {Gemini, Groq, SpanishLLM}

\* names the registry is probed with: the configured names, their lower-case
\* and upper-case spellings, the names of initialize_platon.py, and others,
\* some with letters outside ASCII
RegistryNames ==
    MODEL_OPTIONS \cup {lower(p) : p \in MODEL_OPTIONS} \cup
    { <<"s","p","a","n","i","s","h","-","l","l","m">>,
      <<"G","R","O","Q">>, <<"G","E","M","I","N","I">>,
      <<"O","p","e","n","A","I">>, <<"G","r","o","q"," ">>,
      <<"_","-",".">>, <<"G","r","o","q","!">>, <<>>,
      <<"C","a","f","é">>, <<"Ñ","a","n","d","ú"," ","9">>, <<"x","²">>,
      <<"É">> }

\* values of the GOOGLE_API_KEY environment variable: unset, empty, set
Keys == {None, Some(""), Some("AIza")}

(***************************************************************************)
(* vectorstore_handler.py: storage identity                                *)
(***************************************************************************)
PERSIST_DIR ==
    SpanishLLM :> <<".","/","d","a","t","a","/","s","p","a","n","i","s","h",
                    "_","v","e","c","t","o","r","_","s","t","o","r","e",
                    ".","c","h","r","o","m","a">>

persist_path_shared(model_provider) == PERSIST_DIR[SpanishLLM]

\* PERSIST_DIR.get(p, f"./data/{p.lower().replace(' ', '_')}_store.chroma")
persist_path(model_provider) ==
    IF model_provider \in DOMAIN PERSIST_DIR
    THEN PERSIST_DIR[model_provider]
    ELSE <<".","/","d","a","t","a","/">>
         \o replace(lower(model_provider), " ", "_")
         \o <<"_","s","t","o","r","e",".","c","h","r","o","m","a">>

normalize_collection_name(provider) ==
    LET normalized1 == replace(replace(lower(provider), " ", "_"), "-", "_")
        normalized2 == join_if_valid(normalized1)
        normalized3 == strip(normalized2, {".", "_", "-"})
    IN  <<"p","l","a","t","o","n","i","c","_">> \o normalized3

\* lines 121 and 124 of get_or_create_vectorstore, evaluated once for each
\* provider name of the model
Storage ==
    [p \in RegistryNames |->
        [persist_path |-> persist_path(p),
         collection_name |-> normalize_collection_name(p)]]

(***************************************************************************)
(* vectorstore_handler.py: get_embeddings                                  *)
(***************************************************************************)
NoError == [type |-> "", text |-> "", arg |-> <<>>]

\* raise ValueError(f"{text}{arg}")
ValueError(text, arg) == [type |-> "ValueError", text |-> text, arg |-> arg]

Returned(v) == [raised |-> FALSE, value |-> v, error |-> NoError]
Raised(e) == [raised |-> TRUE, value |-> "", error |-> e]

\* `not GOOGLE_API_KEY`: None and the empty string are both falsy
falsy_key(key) == key = None \/ key[1] = ""

get_embeddings_anycase(model_provider, key) ==
    IF lower(model_provider) = lower(SpanishLLM)
    THEN Returned("intfloat/multilingual-e5-small")
    ELSE IF lower(model_provider) = lower(Groq)
    THEN Returned("sentence-transformers/paraphrase-multilingual-MiniLM-L12-v2")
    ELSE IF lower(model_provider) = lower(Gemini)
    THEN IF falsy_key(key)
         THEN Raised(ValueError("GOOGLE_API_KEY not found in environment variables", <<>>))
         ELSE Returned("models/embedding-001")
    ELSE Raised(ValueError("Unsupported provider: ", model_provider))

get_embeddings_nokeycheck(model_provider, key) ==
    IF model_provider = SpanishLLM
    THEN Returned("intfloat/multilingual-e5-small")
    ELSE IF model_provider = Groq
    THEN Returned("sentence-transformers/paraphrase-multilingual-MiniLM-L12-v2")
    ELSE IF model_provider = Gemini
    THEN Returned("models/embedding-001")
    ELSE Raised(ValueError("Unsupported provider: ", model_provider))

\* the value returned stands for the embedding function: the name of the
\* embedding model it is bound to
get_embeddings(model_provider, key) ==
    IF model_provider = SpanishLLM
    THEN Returned("intfloat/multilingual-e5-small")
    ELSE IF model_provider = Groq
    THEN Returned("sentence-transformers/paraphrase-multilingual-MiniLM-L12-v2")
    ELSE IF model_provider = Gemini
    THEN IF falsy_key(key)
         THEN Raised(ValueError("GOOGLE_API_KEY not found in environment variables", <<>>))
         ELSE Returned("models/embedding-001")
    ELSE Raised(ValueError("Unsupported provider: ", model_provider))

(***************************************************************************)
(* Texts.  A text is <<id, lo, hi>>: the characters lo..hi-1 of the text    *)
(* named id.  The texts named in Whitespace begin or end with whitespace   *)
(* and are at most chunk_size long; every other text, the texts of the     *)
(* uploaded files among them, contains none of the splitter's separators.  *)
(***************************************************************************)
CHUNK_SIZE == 5000
CHUNK_OVERLAP == 500

RECURSIVE SumSeq(_)
SumSeq(s) == IF s = <<>> THEN 0 ELSE Head(s) + SumSeq(Tail(s))

\* pdf_handler.get_pdf_text([pdf]) for a readable file: the concatenation
\* of the page texts (pdf.pages holds the length of each page's text)
get_pdf_text(pdf) == <<pdf.name, 0, SumSeq(pdf.pages)>>

\* the characters from..to-1 of a text with whitespace are not whitespace,
\* all its other characters are
PadLen == 2
PadEnd == 6
Whitespace ==
    [blank |-> [from |-> 0, to |-> 0],
     padded |-> [from |-> PadLen, to |-> PadEnd],
     leading |-> [from |-> PadLen, to |-> CHUNK_SIZE],
     trailing |-> [from |-> 0, to |-> PadEnd]]


\* str.strip() of the splitter's _join_docs (strip_whitespace=True, the
\* default); an all-whitespace text becomes the empty text
strip_text(text) ==
    LET id == text[1]  lo == text[2]  hi == text[3] IN
    IF id \notin DOMAIN Whitespace THEN text
    ELSE LET a == IF lo > Whitespace[id].from THEN lo ELSE Whitespace[id].from
             b == Min(hi, Whitespace[id].to)
         IN  IF a >= b THEN <<id, lo, lo>> ELSE <<id, a, b>>

\* pdf_handler.get_text_chunks: RecursiveCharacterTextSplitter(5000, 500).
\* A text of at most chunk_size characters is merged back into one chunk,
\* which is stripped and dropped if nothing is left; a longer,
\* separator-free text is cut into windows of chunk_size characters, each
\* starting chunk_size - chunk_overlap after the previous one
RECURSIVE get_text_chunks(_)
get_text_chunks(text) ==
    LET id == text[1]  lo == text[2]  hi == text[3] IN
    IF hi - lo <= 0 THEN <<>>
    ELSE IF hi - lo <= CHUNK_SIZE
    THEN IF strip_text(text)[3] - strip_text(text)[2] <= 0
         THEN <<>> ELSE <<strip_text(text)>>
    ELSE << <<id, lo, lo + CHUNK_SIZE>> >>
         \o get_text_chunks(<<id, lo + CHUNK_SIZE - CHUNK_OVERLAP, hi>>)

(***************************************************************************)
(* json_ingestor.py: load_platon_json                                      *)
(***************************************************************************)
PLATON_SOURCE == "platon_analisis_nlp.json"

\* number of entries of a well-formed corpus file
CorpusSize == 2

CorpusItem(i) == [texto |-> <<"platon", i - 1, i>>, tipo |-> "dialogue"]

\* states of the file at PLATON_JSON_PATH
CorpusFiles ==
    { [status |-> "missing", data |-> <<>>],
      [status |-> "malformed", data |-> <<>>],
      [status |-> "ok", data |-> <<>>],
      [status |-> "ok", data |-> [i \in 1..CorpusSize |-> CorpusItem(i)]] }

load_platon_json_lenient(file) ==
    IF file.status = "missing"
    THEN Raised([type |-> "FileNotFoundError", text |-> "", arg |-> <<>>])
    ELSE IF file.status = "malformed"
    THEN Raised([type |-> "JSONDecodeError", text |-> "", arg |-> <<>>])
    ELSE Returned([i \in DOMAIN file.data |->
                     [page_content |-> file.data[i].texto,
                      source |-> PLATON_SOURCE,
                      tipo |-> file.data[i].tipo,
                      chunk_id |-> i - 1]])

load_platon_json(file) ==
    IF file.status = "missing"
    THEN Raised([type |-> "FileNotFoundError", text |-> "", arg |-> <<>>])
    ELSE IF file.status = "malformed"
    THEN Raised([type |-> "JSONDecodeError", text |-> "", arg |-> <<>>])
    ELSE LET documents ==
                 [i \in DOMAIN file.data |->
                     [page_content |-> file.data[i].texto,
                      source |-> PLATON_SOURCE,
                      tipo |-> file.data[i].tipo,
                      chunk_id |-> i - 1]]
         IN  IF documents = <<>>
             THEN Raised(ValueError("No documents loaded from ", <<>>))
             ELSE Returned(documents)

(***************************************************************************)
(* vectorstore_handler.py: get_plato_documents and _PLATO_DOCS_CACHE       *)
(***************************************************************************)
cache_unset_or_empty(c) == c = None \/ c = Some(<<>>)

\* line 101: `_PLATO_DOCS_CACHE is None`
cache_unset(c) == c = None

\* outcome: "loaded" (parsed now), "failed" (parse raised now, empty list
\* cached), "cached" (served from the cache)
get_plato_documents(c, file) ==
    IF cache_unset(c)
    THEN LET r == load_platon_json(file) IN
         IF r.raised
         THEN [docs |-> <<>>, cache |-> Some(<<>>), outcome |-> "failed"]
         ELSE [docs |-> r.value, cache |-> Some(r.value), outcome |-> "loaded"]
    ELSE [docs |-> c[1], cache |-> c, outcome |-> "cached"]

(***************************************************************************)
(* The persisted store (Chroma).  d[path] is the directory at path: a      *)
(* function from the names of the collections in it to their entries, in   *)
(* insertion order.  A directory with no collection is missing or empty.   *)
(***************************************************************************)
SCAN_LIMIT == 10000

NoDir == [n \in {} |-> <<>>]

path_nonempty_never(d, path) == FALSE

\* os.path.exists(persist_path) and os.listdir(persist_path)
path_nonempty(d, path) == DOMAIN d[path] # {}

Collection(d, path, name) ==
    IF name \in DOMAIN d[path] THEN d[path][name] ELSE <<>>

chroma_open_reset(d, path, name) ==
    [d EXCEPT ![path] = (name :> <<>>) @@ d[path]]

\* Chroma(persist_directory, embedding_function, collection_name):
\* get_or_create_collection
chroma_open(d, path, name) ==
    [d EXCEPT ![path] = (name :> Collection(d, path, name)) @@ d[path]]

chroma_add_replace(d, path, name, docs, embedding) ==
    [d EXCEPT ![path] =
        (name :> [i \in DOMAIN docs |-> [emb |-> embedding] @@ docs[i]])
        @@ d[path]]

chroma_add_upsert(d, path, name, docs, embedding) ==
    [d EXCEPT ![path] =
        (name :> (Collection(d, path, name)
                  \o SelectSeq([i \in DOMAIN docs |-> [emb |-> embedding] @@ docs[i]],
                               LAMBDA e : \A j \in DOMAIN Collection(d, path, name) :
                                              Collection(d, path, name)[j] # e)))
        @@ d[path]]

\* add_documents / from_documents: embed and append.  Entries get fresh
\* ids, so nothing is replaced; a call that raises adds nothing.
chroma_add(d, path, name, docs, embedding) ==
    [d EXCEPT ![path] =
        (name :> (Collection(d, path, name)
                  \o [i \in DOMAIN docs |-> [emb |-> embedding] @@ docs[i]]))
        @@ d[path]]

\* vectorstore.get(limit=10000)["metadatas"] -> {doc.get("source", "")}
existing_sources(entries) ==
    {entries[i].source : i \in 1..Min(SCAN_LIMIT, Len(entries))}

plato_exists_never(sources) == FALSE

plato_exists_of_path(sources) == "./data/platon_analisis_nlp.json" \in sources

\* line 147: `"platon_analisis_nlp.json" in existing_sources`
plato_exists_of(sources) == "platon_analisis_nlp.json" \in sources

\* handles: a persisted Chroma reads the directory, an in-memory one
\* (no persist_directory) holds its own entries
PersistedHandle_default(path, name) ==
    [persist_directory |-> Some(path),
     collection_name |-> <<"l","a","n","g","c","h","a","i","n">>,
     docs |-> <<>>]

PersistedHandle(path, name) ==
    [persist_directory |-> Some(path), collection_name |-> name, docs |-> <<>>]
MemoryHandle(name, docs, embedding) ==
    [persist_directory |-> None, collection_name |-> name,
     docs |-> [i \in DOMAIN docs |-> [emb |-> embedding] @@ docs[i]]]

Contents(h, d) ==
    IF h.persist_directory # None
    THEN Collection(d, h.persist_directory[1], h.collection_name)
    ELSE h.docs

(***************************************************************************)
(* vectorstore_handler.py: get_or_create_vectorstore                       *)
(***************************************************************************)
\* uploaded files: name, whether PdfReader can read it, and the length of
\* the text of each page
FileA == [name |-> "a.pdf", readable |-> TRUE, pages |-> <<100>>]
FileB == [name |-> "b.pdf", readable |-> TRUE, pages |-> <<3000, 3000>>]
FileBad == [name |-> "bad.pdf", readable |-> FALSE, pages |-> <<>>]
\* an upload that carries the name of the corpus file
FileNamedAsCorpus ==
    [name |-> "platon_analisis_nlp.json", readable |-> TRUE, pages |-> <<100>>]
Files == {FileA, FileB, FileBad}

pdf_documents_unnumbered(pdf, model_provider) ==
    LET chunks == get_text_chunks(get_pdf_text(pdf)) IN
    [i \in DOMAIN chunks |->
        [page_content |-> chunks[i],
         source |-> "uploaded_pdf_" \o pdf.name,
         chunk_id |-> 0,
         type |-> "user_pdf",
         provider |-> model_provider]]

\* lines 175-187: the documents of one uploaded file (the "timestamp"
\* metadata, str(datetime.now()), is left out)
pdf_documents(pdf, model_provider) ==
    LET chunks == get_text_chunks(get_pdf_text(pdf)) IN
    [i \in DOMAIN chunks |->
        [page_content |-> chunks[i],
         source |-> "uploaded_pdf_" \o pdf.name,
         chunk_id |-> i - 1,
         type |-> "user_pdf",
         provider |-> model_provider]]

\* lines 170-193: one try around the whole loop, so the first file whose
\* extraction raises ends the loop and the documents staged so far are kept
RECURSIVE stage_uploads(_, _)
stage_uploads(uploaded_files, model_provider) ==
    IF uploaded_files = <<>> THEN <<>>
    ELSE IF ~Head(uploaded_files).readable THEN <<>>
    ELSE pdf_documents(Head(uploaded_files), model_provider)
         \o stage_uploads(Tail(uploaded_files), model_provider)

\* the calls into Chroma that can raise: Chroma(...) at line 133 ("open"),
\* vectorstore.get at 142 ("scan"), Chroma(...) at 203 ("init"),
\* from_documents at 212 ("create") and at 222 ("fallback"),
\* add_documents at 231 ("append")
FaultPoints == {"open", "scan", "init", "create", "fallback", "append"}

ChromaError == [type |-> "ChromaError", text |-> "", arg |-> <<>>]

\* uploaded_files, model_provider: the arguments; d, c, file, key: the
\* persisted store, _PLATO_DOCS_CACHE, the corpus file and GOOGLE_API_KEY
\* at the call; F: the Chroma calls that raise if they are made.
\* The result holds what the call returns or raises, the store and the
\* cache it leaves, and a record of what it did.
get_or_create_vectorstore(uploaded_files, model_provider, d, c, file, key, F) ==
    LET e == get_embeddings(model_provider, key) IN
    IF e.raised
    THEN [raised |-> TRUE, error |-> e.error, handle |-> None,
          disk |-> d, cache |-> c, steps |-> {}, corpus |-> "none",
          staged |-> <<>>]
    ELSE
    LET embedding == e.value
        path == Storage[model_provider].persist_path
        collection_name == Storage[model_provider].collection_name
        \* 1: load existing vectorstore
        exists == path_nonempty(d, path)
        opened == exists /\ "open" \notin F
        d1 == IF opened THEN chroma_open(d, path, collection_name) ELSE d
        sources == IF opened /\ "scan" \notin F
                   THEN existing_sources(Collection(d1, path, collection_name))
                   ELSE {}
        plato_exists == opened /\ plato_exists_of(sources)
        steps1 == (IF exists THEN {"open"} ELSE {})
                  \cup (IF opened THEN {"scan"} ELSE {})
        \* 2: prepare documents to add
        pd == IF plato_exists
              THEN [docs |-> <<>>, cache |-> c, outcome |-> "present"]
              ELSE get_plato_documents(c, file)
        documents_to_add == pd.docs \o stage_uploads(uploaded_files, model_provider)
        vectorstore == PersistedHandle(path, collection_name)
        \* `if vectorstore:` is len(vectorstore) > 0 (Chroma.__len__)
        truthy == opened /\ Len(Collection(d1, path, collection_name)) > 0
        out(raised, handle, disk, steps) ==
            [raised |-> raised,
             error |-> IF raised THEN ChromaError ELSE NoError,
             handle |-> handle, disk |-> disk, cache |-> pd.cache,
             steps |-> steps1 \cup steps, corpus |-> pd.outcome,
             staged |-> documents_to_add]
    IN
    \* 3: create or update vectorstore
    IF documents_to_add = <<>>
    THEN IF truthy
         THEN out(FALSE, Some(vectorstore), d1, {})
         ELSE IF "init" \in F
         THEN out(TRUE, None, d1, {"init"})
         ELSE out(FALSE, Some(vectorstore),
                  chroma_open(d1, path, collection_name), {"init"})
    ELSE IF ~opened
    THEN IF "create" \notin F
         THEN out(FALSE, Some(vectorstore),
                  chroma_add(d1, path, collection_name, documents_to_add, embedding),
                  {"create"})
         ELSE IF "fallback" \notin F
         THEN out(FALSE,
                  Some(MemoryHandle(collection_name \o <<"_","f","a","l","l","b","a","c","k">>,
                                    documents_to_add, embedding)),
                  d1, {"create", "fallback"})
         ELSE out(TRUE, None, d1, {"create", "fallback"})
    ELSE IF "append" \notin F
         THEN out(FALSE, Some(vectorstore),
                  chroma_add(d1, path, collection_name, documents_to_add, embedding),
                  {"append"})
         ELSE out(FALSE, Some(vectorstore), d1, {"append"})

(***************************************************************************)
(* State                                                                   *)
(***************************************************************************)
VARIABLES
    disk,               \* the persisted store: path -> directory
    cache,              \* _PLATO_DOCS_CACHE of the running process
    corpus_file,        \* the file at PLATON_JSON_PATH
    GOOGLE_API_KEY,     \* utils/config.py GOOGLE_API_KEY
    vector_store,       \* st.session_state.vector_store
    pdf_files,          \* st.session_state.pdf_files
    unsubmitted_files,  \* st.session_state.unsubmitted_files
    plato_loaded,       \* st.session_state.get("plato_loaded")
    ui,                 \* what the last handler showed: st.error or st.toast
    call,               \* the last get_or_create_vectorstore call
    probe,              \* input and result of a function applied on its own
    parses,             \* times load_platon_json ran in the running process
    requests,           \* the requests inside get_plato_documents
    last_provider,      \* st.session_state.last_provider
    chat_history,       \* st.session_state.chat_history
    uploader_key,       \* st.session_state.uploader_key
    page                \* what the last run of main() rendered

vars == <<disk, cache, corpus_file, GOOGLE_API_KEY, vector_store, pdf_files,
          unsubmitted_files, plato_loaded, ui, call, probe, parses, requests,
          last_provider, chat_history, uploader_key, page>>

\* the session state and the page that only main() and the sidebar touch
page_vars == <<last_provider, chat_history, uploader_key, page>>

\* provider names the handlers are called with: two configured names, one
\* of which needs the API key, and the lower-case spelling of a third
Providers == {SpanishLLM, Gemini, lower(Groq)}

\* GOOGLE_API_KEY of the running deployment: unset or set
SystemKeys == {None, Some("AIza")}

StoragePaths == {persist_path(p) : p \in Providers}

\* most uploaded files in one Submit
MaxUploads == 3

\* most entries the persisted store holds
MaxEntries == 4

\* most Chroma calls that raise during one Submit
MaxFaults == 2

FaultSets == {F \in SUBSET FaultPoints : Cardinality(F) <= MaxFaults}

\* lists of at most n distinct files
UploadListsUpTo(n) ==
    {s \in UNION {[1..k -> Files] : k \in 0..n} :
        \A i, j \in DOMAIN s : s[i] = s[j] => i = j}

UploadLists == UploadListsUpTo(MaxUploads)

\* the uploads of the index and session specifications: none, or one file
IndexUploads == {<<>>, <<FileA>>}

RECURSIVE SumLens(_, _)
SumLens(f, S) ==
    IF S = {} THEN 0
    ELSE LET x == CHOOSE y \in S : TRUE
         IN  Len(f[x]) + SumLens(f, S \ {x})

RECURSIVE TotalEntries(_, _)
TotalEntries(d, P) ==
    IF P = {} THEN 0
    ELSE LET x == CHOOSE y \in P : TRUE
         IN  SumLens(d[x], DOMAIN d[x]) + TotalEntries(d, P \ {x})

NoCall ==
    [provider |-> <<>>, files |-> <<>>, faults |-> {}, raised |-> FALSE,
     error |-> NoError, handle |-> None, steps |-> {}, corpus |-> "none",
     staged |-> <<>>]

NoProbe == [op |-> "none", name |-> <<>>, key |-> None]

\* requests served by threads of the one server process
MaxRequests == 2
Requests == 1..MaxRequests

\* a request outside get_plato_documents; loaded is the local result of
\* load_platon_json, result the value the last call returned
IdleRequest == [pc |-> "idle", loaded |-> None, result |-> None]

\* no run of main() has rendered anything yet
NoPage ==
    [event |-> "none", provider |-> <<>>, model |-> FALSE, files |-> <<>>,
     completed |-> TRUE, error |-> "none", submit |-> "none",
     rebuild |-> "none", question_enabled |-> FALSE,
     rerun |-> FALSE, cleared |-> FALSE]

\* chat_handler.setup_session_state on the first run of a session
SessionInit ==
    /\ vector_store = None
    /\ pdf_files = Some(<<>>)
    /\ unsubmitted_files = FALSE
    /\ plato_loaded = FALSE
    /\ ui = "none"
    /\ last_provider = None
    /\ chat_history = <<>>
    /\ uploader_key = 0
    /\ page = NoPage

Init ==
    /\ disk = [p \in StoragePaths |-> NoDir]
    /\ cache = None
    /\ corpus_file \in CorpusFiles
    /\ GOOGLE_API_KEY \in SystemKeys
    /\ SessionInit
    /\ call = NoCall
    /\ probe = NoProbe
    /\ parses = 0
    /\ requests = [t \in Requests |-> IdleRequest]

(***************************************************************************)
(* get_or_create_vectorstore called directly                               *)
(***************************************************************************)
CallRecord(model_provider, uploaded_files, F, r) ==
    [provider |-> model_provider, files |-> uploaded_files,
     faults |-> F, raised |-> r.raised, error |-> r.error,
     handle |-> r.handle, steps |-> r.steps, corpus |-> r.corpus,
     staged |-> r.staged]

Call(model_provider, uploaded_files, F) ==
    LET r == get_or_create_vectorstore(uploaded_files, model_provider, disk,
                 cache, corpus_file, GOOGLE_API_KEY, F)
    IN
    /\ F \subseteq r.steps
    /\ TotalEntries(r.disk, StoragePaths) <= MaxEntries
    /\ disk' = r.disk
    /\ cache' = r.cache
    /\ call' = CallRecord(model_provider, uploaded_files, F, r)
    /\ parses' = parses + (IF r.corpus \in {"loaded", "failed"} THEN 1 ELSE 0)
    /\ UNCHANGED <<corpus_file, GOOGLE_API_KEY, vector_store, pdf_files,
                   unsubmitted_files, plato_loaded, ui, probe, requests>>
    /\ UNCHANGED page_vars

(***************************************************************************)
(* sidebar_handler.py: sidebar_file_upload(model_provider) with the Submit *)
(* button pressed and uploaded_files in the uploader.  The handler is      *)
(* taken with any provider name of Providers as its argument.              *)
(***************************************************************************)
Submit(model_provider, uploaded_files, F) ==
    LET r == get_or_create_vectorstore(uploaded_files, model_provider, disk,
                 cache, corpus_file, GOOGLE_API_KEY, F)
        \* render_upload_files_button, lines 62-63
        unsubmitted == IF uploaded_files # <<>> /\ Some(uploaded_files) # pdf_files
                       THEN TRUE ELSE unsubmitted_files
    IN
    /\ F \subseteq r.steps
    /\ TotalEntries(r.disk, StoragePaths) <= MaxEntries
    /\ disk' = r.disk
    /\ cache' = r.cache
    /\ call' = CallRecord(model_provider, uploaded_files, F, r)
    /\ parses' = parses + (IF r.corpus \in {"loaded", "failed"} THEN 1 ELSE 0)
    /\ IF r.raised
       THEN /\ ui' = "error"
            /\ unsubmitted_files' = unsubmitted
            /\ UNCHANGED <<vector_store, pdf_files, plato_loaded>>
       ELSE /\ vector_store' = r.handle
            /\ pdf_files' = Some(uploaded_files)
            /\ unsubmitted_files' = FALSE
            /\ plato_loaded' = TRUE
            /\ ui' = IF uploaded_files # <<>> THEN "toast_pdfs" ELSE "toast_plato"
    /\ UNCHANGED <<corpus_file, GOOGLE_API_KEY, probe, requests>>
    /\ UNCHANGED page_vars

\* the server process is restarted: module globals and sessions are lost,
\* the persisted store is kept
Restart ==
    /\ cache' = None
    /\ vector_store' = None
    /\ pdf_files' = Some(<<>>)
    /\ unsubmitted_files' = FALSE
    /\ plato_loaded' = FALSE
    /\ ui' = "none"
    /\ parses' = 0
    /\ requests' = [t \in Requests |-> IdleRequest]
    /\ last_provider' = None
    /\ chat_history' = <<>>
    /\ uploader_key' = 0
    /\ page' = NoPage
    /\ UNCHANGED <<disk, corpus_file, GOOGLE_API_KEY, call, probe>>

\* the index manager: calls for any provider, with and without faults
Next ==
    \/ \E p \in Providers, u \in IndexUploads, F \in FaultSets :
           Call(p, u, F)
    \/ Restart

Spec == Init /\ [][Next]_vars

\* uploads: calls with several files for one provider
NextUploads ==
    \/ \E u \in UploadLists, F \in {{}} : Call(SpanishLLM, u, F)
    \/ Restart

SpecUploads == Init /\ [][NextUploads]_vars

\* the corpus sentinel: calls with and without an upload that carries the
\* name of the corpus file
SentinelUploads == {<<>>, <<FileA>>, <<FileNamedAsCorpus>>}

NextSentinel ==
    \/ \E u \in SentinelUploads, F \in {{}} : Call(SpanishLLM, u, F)
    \/ Restart

SpecSentinel == Init /\ [][NextSentinel]_vars

\* the Submit handler
NextSession ==
    \/ \E p \in Providers, u \in IndexUploads, F \in FaultSets :
           Submit(p, u, F)
    \/ Restart

SpecSession == Init /\ [][NextSession]_vars

(***************************************************************************)
(* sidebar_handler.py: the model selector                                  *)
(***************************************************************************)
\* render_model_selector: the provider selectbox offers the keys of
\* MODEL_OPTIONS or nothing; the selection is returned in lower case
render_model_selector(selection, model) ==
    [model_provider |-> IF selection # None THEN lower(selection[1]) ELSE <<>>,
     model |-> model]

\* what the provider selectbox can hold
Selections == {None} \cup {Some(k) : k \in MODEL_OPTIONS}


(***************************************************************************)
(* app.py main(): one script run as a function of the session and the      *)
(* process state.  A world is the state a run reads and writes.            *)
(***************************************************************************)
World ==
    [disk |-> disk, cache |-> cache, parses |-> parses, call |-> call,
     ui |-> ui, vector_store |-> vector_store, pdf_files |-> pdf_files,
     unsubmitted_files |-> unsubmitted_files, plato_loaded |-> plato_loaded,
     last_provider |-> last_provider, chat_history |-> chat_history,
     uploader_key |-> uploader_key]

\* the world after a get_or_create_vectorstore call with result r
after_call(w, model_provider, files, F, r) ==
    [w EXCEPT !.disk = r.disk, !.cache = r.cache,
              !.call = CallRecord(model_provider, files, F, r),
              !.parses = @ + (IF r.corpus \in {"loaded", "failed"} THEN 1 ELSE 0)]

\* the value of a local assignment: the one element of a singleton set
Only(S) == CHOOSE x \in S : TRUE

\* sidebar_file_upload with render_upload_files_button: `returned` is FALSE
\* for the bare return after an exception, which hands None to the caller
sidebar_file_upload(w, model_provider, uploaded_files, submitted, file, key, F) ==
    LET w1 == IF uploaded_files # <<>> /\ Some(uploaded_files) # w.pdf_files
              THEN [w EXCEPT !.unsubmitted_files = TRUE]
              ELSE w
    IN  IF ~submitted
        THEN [w |-> w1, returned |-> TRUE, submit |-> "none", steps |-> {}]
        ELSE Only({
            IF r.raised
            THEN [w |-> [after_call(w1, model_provider, uploaded_files, F, r)
                            EXCEPT !.ui = "error"],
                  returned |-> FALSE, submit |-> "raised", steps |-> r.steps]
            ELSE [w |-> [after_call(w1, model_provider, uploaded_files, F, r)
                            EXCEPT !.vector_store = r.handle,
                                   !.pdf_files = Some(uploaded_files),
                                   !.unsubmitted_files = FALSE,
                                   !.plato_loaded = TRUE,
                                   !.ui = IF uploaded_files # <<>>
                                          THEN "toast_pdfs" ELSE "toast_plato"],
                  returned |-> TRUE, submit |-> "ok", steps |-> r.steps]
            : r \in {get_or_create_vectorstore(uploaded_files, model_provider,
                                               w.disk, w.cache, file, key, F)} })

\* sidebar_provider_change_check: the index is rebuilt only when the session
\* holds submitted PDFs
sidebar_provider_change_check(w, model_provider, model, file, key, F) ==
    LET w1 == [w EXCEPT !.last_provider = Some(model_provider)]
    IN  IF ~(Some(model_provider) # w.last_provider /\ model)
        THEN [w |-> w, rebuild |-> "none", steps |-> {}]
        ELSE IF w.pdf_files = None \/ w.pdf_files = Some(<<>>)
        THEN [w |-> w1, rebuild |-> "none", steps |-> {}]
        ELSE Only({
            IF r.raised
            THEN [w |-> [after_call(w1, model_provider, w.pdf_files[1], F, r)
                            EXCEPT !.ui = "error"],
                  rebuild |-> "raised", steps |-> r.steps]
            ELSE [w |-> [after_call(w1, model_provider, w.pdf_files[1], F, r)
                            EXCEPT !.vector_store = r.handle,
                                   !.ui = "toast_reprocessed"],
                  rebuild |-> "ok", steps |-> r.steps]
            : r \in {get_or_create_vectorstore(w.pdf_files[1], model_provider,
                                               w.disk, w.cache, file, key, F)} })

\* Clear Chat: lines 145-148
clear_chat_and_index(w) ==
    [w EXCEPT !.chat_history = <<>>, !.pdf_files = None,
              !.vector_store = None, !.uploader_key = @ + 1,
              !.ui = "toast_cleared",
              !.disk = [p \in DOMAIN @ |-> NoDir]]
clear_chat(w) ==
    [w EXCEPT !.chat_history = <<>>, !.pdf_files = None,
              !.vector_store = None, !.uploader_key = @ + 1,
              !.ui = "toast_cleared"]

\* sidebar_utilities: Reset leaves no key in the session (the page of that
\* run is marked cleared): the variables hold from then on the values
\* setup_session_state and .get() give for absent keys.  Clear Chat; Undo,
\* which needs a non-empty history.  All three end the run with st.rerun().
sidebar_utilities(w, event) ==
    CASE event = "reset" ->
             [w |-> [w EXCEPT !.chat_history = <<>>, !.vector_store = None,
                              !.pdf_files = Some(<<>>), !.last_provider = None,
                              !.unsubmitted_files = FALSE, !.uploader_key = 0,
                              !.plato_loaded = FALSE, !.ui = "none"],
              rerun |-> TRUE]
      [] event = "clear" ->
             [w |-> clear_chat(w), rerun |-> TRUE]
      [] event = "undo" /\ w.chat_history # <<>> ->
             [w |-> [w EXCEPT !.chat_history = SubSeq(@, 1, Len(@) - 1),
                              !.ui = "toast_undone"],
              rerun |-> TRUE]
      [] OTHER -> [w |-> w, rerun |-> FALSE]

\* llm_handler.get_llm_instance: the names it knows; llm_fault stands for a
\* constructor that raises (no API key, no model file)
Spanish_llm == <<"S","p","a","n","i","s","h"," ","l","l","m">>

get_llm_instance(model_provider, llm_fault) ==
    IF model_provider \in {Groq, Gemini, Spanish_llm}
    THEN IF llm_fault THEN Raised(ValueError("llm: ", model_provider))
         ELSE Returned(model_provider)
    ELSE Raised(ValueError("Unsupported provider: ", model_provider))

\* llm_handler.get_llm_chain: None without a model or without an LLM, else a
\* chain whose retriever searches the given index
get_llm_chain(model_provider, model, vectorstore, llm_fault) ==
    IF ~model THEN None
    ELSE IF get_llm_instance(model_provider, llm_fault).raised THEN None
    ELSE Some([llm |-> model_provider, retriever |-> vectorstore])

\* chat_handler.handle_user_input: uploaded_files is what the uploader of the
\* current uploader_key holds; question tells whether a question was sent
handle_user_input(w, model_provider, chain, uploaded_files, question, invoke_fault) ==
    LET disable_question_input ==
            w.unsubmitted_files \/ uploaded_files = <<>> \/ chain = None
    IN  IF ~question \/ disable_question_input
        THEN [w |-> w, enabled |-> ~disable_question_input]
        ELSE IF invoke_fault \/ w.pdf_files = None
        THEN [w |-> [w EXCEPT !.ui = "error"], enabled |-> TRUE]
        ELSE [w |-> [w EXCEPT !.chat_history =
                         Append(@, [model_provider |-> model_provider,
                                    pdf_names |-> [i \in DOMAIN w.pdf_files[1] |->
                                                      w.pdf_files[1][i].name],
                                    retriever |-> chain[1].retriever])],
              enabled |-> TRUE]

\* a run that an exception ended: the entry point (app.py 538-560) catches
\* what main() raises and shows it with st.error
Aborted(w, model_provider, model, uploaded_files, error, submit) ==
    [w |-> [w EXCEPT !.ui = "error"], steps1 |-> {}, steps2 |-> {},
     page |-> [event |-> "none", provider |-> model_provider, model |-> model,
               files |-> uploaded_files,
               completed |-> FALSE, error |-> error, submit |-> submit,
               rebuild |-> "none", question_enabled |-> FALSE,
               rerun |-> FALSE, cleared |-> FALSE]]

\* `if st.session_state.get("vector_store")`: the truth value of a Chroma
\* object is that of its length, the number of entries of its collection
vector_store_truthy(w) ==
    w.vector_store # None /\ Len(Contents(w.vector_store[1], w.disk)) > 0

\* main() after sidebar_utilities returned ut: the chain and the chat area
main_chat(ut, up, pc, model_provider, model, uploaded_files, event, llm_fault, invoke_fault) ==
    LET chain == IF vector_store_truthy(ut.w)
                 THEN get_llm_chain(model_provider, model,
                                    ut.w.vector_store[1], llm_fault)
                 ELSE None
        done(world, enabled) ==
            [w |-> world, steps1 |-> up.steps, steps2 |-> pc.steps,
             page |-> [event |-> "none", provider |-> model_provider,
                       model |-> model, files |-> uploaded_files,
                       completed |-> TRUE, error |-> "none",
                       submit |-> up.submit, rebuild |-> pc.rebuild,
                       question_enabled |-> enabled,
                       rerun |-> ut.rerun, cleared |-> FALSE]]
    IN  IF ut.rerun \/ ~model
        THEN done(ut.w, FALSE)
        ELSE Only({ done(hu.w, hu.enabled) :
                    hu \in {handle_user_input(ut.w, model_provider, chain,
                                              uploaded_files, event = "question",
                                              invoke_fault)} })

\* main() after sidebar_file_upload returned up: the unpacking at line 441,
\* the provider-change check and the utilities
main_sidebar(up, model_provider, model, uploaded_files, event, file, key, F2, llm_fault, invoke_fault) ==
    IF ~up.returned
    THEN [Aborted(up.w, model_provider, model, uploaded_files, "TypeError",
                  up.submit)
             EXCEPT !.steps1 = up.steps]
    ELSE Only({ Only({ main_chat(ut, up, pc, model_provider, model,
                                 uploaded_files, event, llm_fault, invoke_fault)
                       : ut \in {sidebar_utilities(pc.w, event)} })
                : pc \in { IF model_provider # <<>>
                           THEN sidebar_provider_change_check(
                                    up.w, model_provider, model, file, key, F2)
                           ELSE [w |-> up.w, rebuild |-> "none", steps |-> {}] } })

\* app.py main() from the return of render_model_selector on
main(w, model_provider, model, uploaded_files, event, file, key, F1, F2, llm_fault, invoke_fault) ==
    IF model_provider # <<>> /\ model /\ model_provider \notin MODEL_OPTIONS
    THEN Aborted(w, model_provider, model, uploaded_files, "KeyError", "none")
    ELSE Only({ main_sidebar(up, model_provider, model, uploaded_files, event,
                             file, key, F2, llm_fault, invoke_fault)
                : up \in {sidebar_file_upload(w, model_provider, uploaded_files,
                                              event = "submit", file, key, F1)} })

\* what a user does to start a run: change a widget ("none"), press Submit,
\* Reset, Clear Chat or Undo, or send a question
Events == {"none", "submit", "reset", "clear", "undo", "question"}

\* most entries of the chat history
MaxChat == 2

\* most uses of Clear Chat in one session
MaxClears == 1

\* one user interaction and the script run it starts.  The selectors and
\* the uploader are given their values in a run of their own ("none"); a
\* button or the chat input is used on the page the previous run rendered,
\* with the widgets as that run saw them.  The uploader accepts files only
\* where the previous run rendered it with a model selected; Submit is
\* rendered by every run that reaches sidebar_file_upload, the utilities and
\* the chat input only by a run that reached them.  A run that ended in
\* st.rerun() is followed by Rerun before anything else.
Render(model_provider, model, uploaded_files, event, invoke_fault) ==
    /\ ~page.rerun
    /\ model => model_provider # <<>>
    /\ uploaded_files # page.files => page.model /\ page.error # "KeyError"
    /\ event # "none" => /\ model_provider = page.provider
                         /\ model = page.model
                         /\ uploaded_files = page.files
    /\ event = "submit" => model /\ page.error # "KeyError"
    /\ event \in {"reset", "clear", "undo"} => page.completed
    /\ event = "question" => /\ page.completed /\ page.question_enabled
                             /\ Len(chat_history) < MaxChat
    /\ event = "clear" => uploader_key < MaxClears
    /\ invoke_fault => event = "question"
    /\ \E final \in {main(World, model_provider, model, uploaded_files, event,
                          corpus_file, GOOGLE_API_KEY, {}, {}, FALSE, invoke_fault)} :
        /\ TotalEntries(final.w.disk, StoragePaths) <= MaxEntries
        /\ disk' = final.w.disk
        /\ cache' = final.w.cache
        /\ parses' = final.w.parses
        /\ call' = final.w.call
        /\ ui' = final.w.ui
        /\ vector_store' = final.w.vector_store
        /\ pdf_files' = final.w.pdf_files
        /\ unsubmitted_files' = final.w.unsubmitted_files
        /\ plato_loaded' = final.w.plato_loaded
        /\ last_provider' = final.w.last_provider
        /\ chat_history' = final.w.chat_history
        /\ uploader_key' = final.w.uploader_key
        /\ page' = [final.page EXCEPT !.event = event,
                                      !.cleared = final.page.rerun /\ event = "reset"]
    /\ UNCHANGED <<corpus_file, GOOGLE_API_KEY, probe, requests>>

\* the script run Streamlit starts after st.rerun().  After Reset the
\* session state is empty: setup_session_state fills it with its defaults,
\* the selector and the uploader are empty.  After Clear Chat the uploader
\* of the new uploader_key is empty; after Undo every widget is as before.
Rerun ==
    /\ page.rerun
    /\ \E final \in {main(World,
                          IF page.event = "reset" THEN <<>> ELSE page.provider,
                          IF page.event = "reset" THEN FALSE ELSE page.model,
                          IF page.event = "undo" THEN page.files ELSE <<>>,
                          "none", corpus_file, GOOGLE_API_KEY, {}, {},
                          FALSE, FALSE)} :
        /\ disk' = final.w.disk
        /\ cache' = final.w.cache
        /\ parses' = final.w.parses
        /\ call' = final.w.call
        /\ ui' = final.w.ui
        /\ vector_store' = final.w.vector_store
        /\ pdf_files' = final.w.pdf_files
        /\ unsubmitted_files' = final.w.unsubmitted_files
        /\ plato_loaded' = final.w.plato_loaded
        /\ last_provider' = final.w.last_provider
        /\ chat_history' = final.w.chat_history
        /\ uploader_key' = final.w.uploader_key
        /\ page' = [final.page EXCEPT !.event = "rerun"]
    /\ UNCHANGED <<corpus_file, GOOGLE_API_KEY, probe, requests>>

(***************************************************************************)
(* The handlers of the page called one by one, as SpecSession calls        *)
(* sidebar_file_upload: each step is one call of one handler on the        *)
(* session, in the order in which app.py calls them in a render            *)
(* (sidebar_file_upload, sidebar_provider_change_check, sidebar_utilities, *)
(* handle_user_input), and `page` records the call and what it returned.   *)
(***************************************************************************)
\* the provider names the handlers are called with: the two names that both
\* get_embeddings and get_llm_instance accept, and a name as
\* render_model_selector returns it
HandlerProviders == {Gemini, Groq, lower(Groq)}

\* a deployment whose corpus file is complete, with or without the API key,
\* whose Chroma calls do not fail and whose LLM clients can be constructed
InitHandlers ==
    /\ disk = [p \in StoragePaths |-> NoDir]
    /\ cache = None
    /\ corpus_file = [status |-> "ok", data |-> [i \in 1..CorpusSize |-> CorpusItem(i)]]
    /\ GOOGLE_API_KEY \in SystemKeys
    /\ SessionInit
    /\ call = NoCall
    /\ probe = NoProbe
    /\ parses = 0
    /\ requests = [t \in Requests |-> IdleRequest]

\* the variables of a world w become the next state
Becomes(w) ==
    /\ TotalEntries(w.disk, StoragePaths) <= MaxEntries
    /\ disk' = w.disk
    /\ cache' = w.cache
    /\ parses' = w.parses
    /\ call' = w.call
    /\ ui' = w.ui
    /\ vector_store' = w.vector_store
    /\ pdf_files' = w.pdf_files
    /\ unsubmitted_files' = w.unsubmitted_files
    /\ plato_loaded' = w.plato_loaded
    /\ last_provider' = w.last_provider
    /\ chat_history' = w.chat_history
    /\ uploader_key' = w.uploader_key
    /\ UNCHANGED <<corpus_file, GOOGLE_API_KEY, probe, requests>>

\* the render before has ended: with the chat input, with the early return
\* for no model (app.py 476-483), with the session setup after st.rerun(),
\* or with a sidebar_file_upload that did not return its pair
RenderEnded ==
    \/ page.event \in {"none", "setup", "input", "question"}
    \/ page.event = "submit" /\ ~page.completed
    \/ page.event \in {"provider", "undo"} /\ ~page.model /\ ~page.rerun

\* sidebar_file_upload(model_provider), the first handler of a render, with
\* the model selected or not, the uploader holding uploaded_files and Submit
\* pressed or not.  The uploader and the button are enabled only with a
\* model selected; Submit is pressed on the page as the render before left
\* it.  page.completed tells whether the call returned its pair or the None
\* of the bare return.
FileUpload(model_provider, model, uploaded_files, submitted) ==
    /\ RenderEnded
    /\ uploaded_files # page.files => page.model
    /\ submitted => /\ model
                    /\ model_provider = page.provider
                    /\ model = page.model
                    /\ uploaded_files = page.files
    /\ \E up \in {sidebar_file_upload(World, model_provider, uploaded_files,
                                      submitted, corpus_file, GOOGLE_API_KEY, {})} :
        /\ Becomes(up.w)
        /\ page' = [NoPage EXCEPT !.event = IF submitted THEN "submit" ELSE "upload",
                                  !.provider = model_provider, !.model = model,
                                  !.files = uploaded_files,
                                  !.completed = up.returned,
                                  !.submit = up.submit]

\* sidebar_provider_change_check(model_provider, model), called after
\* sidebar_file_upload returned its pair, with the name of that call
ProviderChange(model_provider, model) ==
    /\ page.event \in {"upload", "submit"} /\ page.completed
    /\ model_provider = page.provider
    /\ model = page.model
    /\ \E pc \in {sidebar_provider_change_check(World, model_provider, model,
                                                corpus_file, GOOGLE_API_KEY, {})} :
        /\ Becomes(pc.w)
        /\ page' = [NoPage EXCEPT !.event = "provider",
                                  !.provider = model_provider, !.model = model,
                                  !.files = page.files,
                                  !.rebuild = pc.rebuild]

\* the buttons of sidebar_utilities
UtilityButtons == {"reset", "clear", "undo"}

\* sidebar_utilities() with one of its buttons pressed, called after the
\* provider-change check.  The call ends in st.rerun() when the button
\* acted; after Reset and after Clear Chat the uploader of the next run is
\* empty.
Utilities(event) ==
    /\ page.event = "provider"
    /\ event = "clear" => uploader_key < MaxClears
    /\ \E ut \in {sidebar_utilities(World, event)} :
        /\ Becomes(ut.w)
        /\ page' = [NoPage EXCEPT !.event = event,
                                  !.provider = IF event = "reset" THEN <<>> ELSE page.provider,
                                  !.model = IF event = "reset" THEN FALSE ELSE page.model,
                                  !.files = IF event = "undo" THEN page.files ELSE <<>>,
                                  !.rerun = ut.rerun,
                                  !.cleared = ut.rerun /\ event = "reset"]

\* setup_session_state() at the start of the run after st.rerun(): it gives
\* the absent keys their defaults, the values the variables hold already
SetupSession ==
    /\ page.rerun
    /\ page' = [page EXCEPT !.event = "setup", !.rerun = FALSE, !.cleared = FALSE]
    /\ UNCHANGED <<disk, cache, parses, call, ui, vector_store, pdf_files,
                   unsubmitted_files, plato_loaded, last_provider,
                   chat_history, uploader_key, corpus_file, GOOGLE_API_KEY,
                   probe, requests>>

\* handle_user_input(model_provider, model, chain), the last handler of a
\* render with a model selected, called after the sidebar handlers with the
\* name of their calls and with the chain that get_llm_chain builds over
\* the session's vector_store when that is true (app.py 501-510); question
\* tells whether a question is sent
UserInput(model_provider, question, invoke_fault) ==
    /\ page.event \in {"provider", "undo"} /\ ~page.rerun
    /\ page.model
    /\ model_provider = page.provider
    /\ question => Len(chat_history) < MaxChat
    /\ invoke_fault => question
    /\ \E chain \in {IF vector_store_truthy(World)
                     THEN get_llm_chain(model_provider, TRUE, vector_store[1], FALSE)
                     ELSE None} :
        \E hu \in {handle_user_input(World, model_provider, chain, page.files,
                                     question, invoke_fault)} :
            /\ Becomes(hu.w)
            /\ page' = [NoPage EXCEPT !.event = IF question THEN "question" ELSE "input",
                                      !.provider = model_provider, !.model = TRUE,
                                      !.files = page.files,
                                      !.question_enabled = hu.enabled]

NextHandlers ==
    \/ \E p \in HandlerProviders, m \in BOOLEAN, u \in IndexUploads, s \in BOOLEAN :
          FileUpload(p, m, u, s)
    \/ \E p \in HandlerProviders, m \in BOOLEAN : ProviderChange(p, m)
    \/ \E e \in UtilityButtons : Utilities(e)
    \/ SetupSession
    \/ \E p \in HandlerProviders, q \in BOOLEAN, qf \in BOOLEAN :
          UserInput(p, q, qf)

SpecHandlers == InitHandlers /\ [][NextHandlers]_vars

\* the page as the program wires it: main() is run with the name that
\* render_model_selector returns for the selection
SidebarRun(selection, model, uploaded_files, event, invoke_fault) ==
    Render(render_model_selector(selection, model).model_provider, model,
           uploaded_files, event, invoke_fault)

NextSidebar ==
    \/ \E k \in Selections, m \in BOOLEAN, u \in IndexUploads, e \in Events,
          qf \in BOOLEAN :
              SidebarRun(k, m, u, e, qf)
    \/ Rerun

SpecSidebar == Init /\ [][NextSidebar]_vars

(***************************************************************************)
(* The registry functions applied to one provider name                     *)
(***************************************************************************)
InitRegistry ==
    /\ disk = [p \in StoragePaths |-> NoDir]
    /\ cache = None
    /\ corpus_file = [status |-> "missing", data |-> <<>>]
    /\ GOOGLE_API_KEY \in Keys
    /\ SessionInit
    /\ call = NoCall
    /\ parses = 0
    /\ requests = [t \in Requests |-> IdleRequest]
    /\ \E n \in RegistryNames :
           probe = [op |-> "input", name |-> n, key |-> GOOGLE_API_KEY]

ProbeEmbeddings ==
    /\ probe.op = "input"
    /\ probe' = [op |-> "get_embeddings", name |-> probe.name, key |-> probe.key,
                 out |-> get_embeddings(probe.name, probe.key)]
    /\ UNCHANGED <<disk, cache, corpus_file, GOOGLE_API_KEY, vector_store,
                   pdf_files, unsubmitted_files, plato_loaded, ui, call,
                   parses, requests>>
    /\ UNCHANGED page_vars

ProbeStorage ==
    /\ probe.op = "input"
    /\ probe' = [op |-> "storage", name |-> probe.name, key |-> probe.key,
                 path |-> persist_path(probe.name),
                 collection_name |-> normalize_collection_name(probe.name)]
    /\ UNCHANGED <<disk, cache, corpus_file, GOOGLE_API_KEY, vector_store,
                   pdf_files, unsubmitted_files, plato_loaded, ui, call,
                   parses, requests>>
    /\ UNCHANGED page_vars

NextRegistry == ProbeEmbeddings \/ ProbeStorage

SpecRegistry == InitRegistry /\ [][NextRegistry]_vars

(***************************************************************************)
(* get_plato_documents statement by statement, run by the requests of one  *)
(* process.  The code takes no lock.                                       *)
(***************************************************************************)
\* line 101: the test of the cache
Check(t) ==
    /\ requests[t].pc = "idle"
    /\ requests' = [requests EXCEPT ![t] =
                       [pc |-> IF cache_unset(cache) THEN "load" ELSE "return",
                        loaded |-> None, result |-> None]]
    /\ UNCHANGED <<disk, cache, corpus_file, GOOGLE_API_KEY, vector_store,
                   pdf_files, unsubmitted_files, plato_loaded, ui, call,
                   probe, parses>>
    /\ UNCHANGED page_vars

\* line 103, right-hand side: load_platon_json(PLATON_JSON_PATH) returns or
\* raises.  A process makes at most one parse for each request that saw
\* the cache unset before the first assignment.
Load(t) ==
    /\ requests[t].pc = "load"
    /\ parses <= MaxRequests
    /\ parses' = parses + 1
    /\ requests' = [requests EXCEPT ![t] =
                       [pc |-> "store",
                        loaded |-> Some(load_platon_json(corpus_file)),
                        result |-> None]]
    /\ UNCHANGED <<disk, cache, corpus_file, GOOGLE_API_KEY, vector_store,
                   pdf_files, unsubmitted_files, plato_loaded, ui, call,
                   probe>>
    /\ UNCHANGED page_vars

\* lines 103 and 107: the assignment to _PLATO_DOCS_CACHE, of the parsed
\* documents or, after an exception, of the empty list
Store(t) ==
    /\ requests[t].pc = "store"
    /\ cache' = IF requests[t].loaded[1].raised
                THEN Some(<<>>)
                ELSE Some(requests[t].loaded[1].value)
    /\ requests' = [requests EXCEPT ![t] =
                       [pc |-> "return", loaded |-> None, result |-> None]]
    /\ UNCHANGED <<disk, corpus_file, GOOGLE_API_KEY, vector_store,
                   pdf_files, unsubmitted_files, plato_loaded, ui, call,
                   probe, parses>>
    /\ UNCHANGED page_vars

\* line 109: return _PLATO_DOCS_CACHE
Return(t) ==
    /\ requests[t].pc = "return"
    /\ requests' = [requests EXCEPT ![t] =
                       [pc |-> "idle", loaded |-> None, result |-> cache]]
    /\ UNCHANGED <<disk, cache, corpus_file, GOOGLE_API_KEY, vector_store,
                   pdf_files, unsubmitted_files, plato_loaded, ui, call,
                   probe, parses>>
    /\ UNCHANGED page_vars

\* the file at PLATON_JSON_PATH is written, replaced or removed
WriteCorpus(file) ==
    /\ file # corpus_file
    /\ corpus_file' = file
    /\ UNCHANGED <<disk, cache, GOOGLE_API_KEY, vector_store, pdf_files,
                   unsubmitted_files, plato_loaded, ui, call, probe, parses,
                   requests>>
    /\ UNCHANGED page_vars

\* no other request is inside get_plato_documents
Sequential(t) == \A u \in Requests \ {t} : requests[u].pc = "idle"

\* sequential calls: a call starts when no other is running
NextCorpusSequential ==
    \/ \E t \in Requests : Sequential(t) /\ Check(t)
    \/ \E t \in Requests : Load(t)
    \/ \E t \in Requests : Store(t)
    \/ \E t \in Requests : Return(t)
    \/ \E file \in CorpusFiles : WriteCorpus(file)
    \/ Restart

SpecCorpusSequential == Init /\ [][NextCorpusSequential]_vars

\* requests of one process interleave statement by statement
NextCorpusConcurrent ==
    \/ \E t \in Requests : Check(t)
    \/ \E t \in Requests : Load(t)
    \/ \E t \in Requests : Store(t)
    \/ \E t \in Requests : Return(t)
    \/ Restart

SpecCorpusConcurrent == Init /\ [][NextCorpusConcurrent]_vars

(***************************************************************************)
(* get_text_chunks applied to one text                                     *)
(***************************************************************************)
\* lengths of the texts the chunker is applied to: around the whitespace
\* of the texts of Whitespace, around chunk_size, and where a second and a
\* third window end
ShortLengths == 0..(PadEnd + 2) \cup {CHUNK_SIZE - 1, CHUNK_SIZE}
LongLengths ==
    {CHUNK_SIZE + 1, CHUNK_SIZE + CHUNK_OVERLAP,
     2 * CHUNK_SIZE - CHUNK_OVERLAP - 1, 2 * CHUNK_SIZE - CHUNK_OVERLAP,
     2 * CHUNK_SIZE - CHUNK_OVERLAP + 1,
     3 * CHUNK_SIZE - 2 * CHUNK_OVERLAP, 3 * CHUNK_SIZE - 2 * CHUNK_OVERLAP + 1}

ChunkerTexts ==
    {<<id, 0, n>> : id \in DOMAIN Whitespace \cup {"plain"}, n \in ShortLengths}
    \cup {<<"plain", 0, n>> : n \in LongLengths}

InitChunker ==
    /\ disk = [p \in StoragePaths |-> NoDir]
    /\ cache = None
    /\ corpus_file = [status |-> "missing", data |-> <<>>]
    /\ GOOGLE_API_KEY = None
    /\ SessionInit
    /\ call = NoCall
    /\ parses = 0
    /\ requests = [t \in Requests |-> IdleRequest]
    /\ \E text \in ChunkerTexts : probe = [op |-> "input", text |-> text]

ProbeChunks ==
    /\ probe.op = "input"
    /\ probe' = [op |-> "get_text_chunks", text |-> probe.text,
                 out |-> get_text_chunks(probe.text)]
    /\ UNCHANGED <<disk, cache, corpus_file, GOOGLE_API_KEY, vector_store,
                   pdf_files, unsubmitted_files, plato_loaded, ui, call,
                   parses, requests>>
    /\ UNCHANGED page_vars

NextChunker == ProbeChunks

SpecChunker == InitChunker /\ [][NextChunker]_vars

(***************************************************************************)
(* Properties                                                              *)
(***************************************************************************)
\* the index of provider p: the collection its calls open, create and extend
Index(p) ==
    Collection(disk, Storage[p].persist_path, Storage[p].collection_name)

CorpusCount(entries) ==
    Cardinality({i \in DOMAIN entries : entries[i].source = PLATON_SOURCE})

\* number of records of the corpus file
CorpusRecords == IF corpus_file.status = "ok" THEN Len(corpus_file.data) ELSE 0

\* a step that is a call of get_or_create_vectorstore
CallStep == call' # call \/ disk' # disk

\* a stored entry without the embedding attached to it
Unembedded(e) == [f \in DOMAIN e \ {"emb"} |-> e[f]]

\* C1: in every reachable state the index of each provider holds at most one
\* copy of the corpus: no more corpus-sourced entries than corpus records.
C1_AtMostOneCorpusCopy ==
    \A p \in Providers : CorpusCount(Index(p)) <= CorpusRecords

\* C2: a fault-free call without uploads that finds no persisted store
\* leaves a persisted index of exactly N entries (N the number of corpus
\* records), and the next call with the same arguments opens that index,
\* attempts neither create nor append, changes nothing in the store and
\* returns an index of exactly N corpus entries.
C2_CreateThenReopen ==
    [][ /\ ( /\ CallStep
             /\ call'.files = <<>> /\ call'.faults = {} /\ ~call'.raised
             /\ ~path_nonempty(disk, Storage[call'.provider].persist_path) )
           => /\ call'.handle = Some(PersistedHandle(
                                  Storage[call'.provider].persist_path,
                                  Storage[call'.provider].collection_name))
              /\ path_nonempty(disk', Storage[call'.provider].persist_path)
              /\ Len(Contents(call'.handle[1], disk')) = CorpusRecords
              /\ (CorpusRecords > 0 => "create" \in call'.steps)
        /\ ( /\ call.files = <<>> /\ call.faults = {} /\ ~call.raised
             /\ call.provider # <<>> /\ "open" \notin call.steps
             /\ CallStep
             /\ call'.provider = call.provider
             /\ call'.files = <<>> /\ call'.faults = {} )
           => /\ ~call'.raised
              /\ "open" \in call'.steps
              /\ "create" \notin call'.steps /\ "append" \notin call'.steps
              /\ call'.staged = <<>>
              /\ disk' = disk
              /\ call'.handle = call.handle
              /\ Len(Contents(call'.handle[1], disk')) = CorpusRecords
              /\ CorpusCount(Contents(call'.handle[1], disk')) = CorpusRecords
      ]_vars

\* the second call of C2 has happened on a corpus of at least one record
C2_Witness ==
    /\ call.files = <<>> /\ call.faults = {} /\ ~call.raised
    /\ call.steps = {"open", "scan"}
    /\ call.corpus = "present"
    /\ CorpusRecords > 0
    /\ Len(Contents(call.handle[1], disk)) = CorpusRecords

\* names the registry accepts under the configured key
AcceptedNames ==
    {n \in RegistryNames : ~get_embeddings(n, GOOGLE_API_KEY).raised}

\* C3: two distinct provider names the registry accepts have different
\* persisted paths and different collection identifiers, and every entry of
\* a provider's index was embedded by that provider's embedding model.
C3_ProviderIsolation ==
    /\ \A p, q \in AcceptedNames :
          p # q => /\ Storage[p].persist_path # Storage[q].persist_path
                   /\ Storage[p].collection_name # Storage[q].collection_name
    /\ \A p \in AcceptedNames \cap Providers :
          \A i \in DOMAIN Index(p) :
              Index(p)[i].emb = get_embeddings(p, GOOGLE_API_KEY).value

\* two accepted providers both have entries in their indexes
C3_Witness ==
    \E p, q \in AcceptedNames \cap Providers :
        p # q /\ Index(p) # <<>> /\ Index(q) # <<>>

\* C4: when exactly one of several uploaded files cannot be extracted, the
\* call does not raise and the documents of every other file, before and
\* after the failing one, are staged and are in the returned index.
C4_SkipAndContinue ==
    ( /\ Len(call.files) >= 2
      /\ Cardinality({i \in DOMAIN call.files : ~call.files[i].readable}) = 1 )
    => /\ ~call.raised
       /\ \A i \in DOMAIN call.files :
             call.files[i].readable =>
                \A k \in DOMAIN pdf_documents(call.files[i], call.provider) :
                    /\ \E j \in DOMAIN call.staged :
                          call.staged[j] = pdf_documents(call.files[i], call.provider)[k]
                    /\ \E j \in DOMAIN Contents(call.handle[1], disk) :
                          Unembedded(Contents(call.handle[1], disk)[j])
                              = pdf_documents(call.files[i], call.provider)[k]

\* C5: when the corpus is not in the provider's index and loading it fails,
\* the call raises: it returns no index built without the corpus.
C5_CorpusFailureFatal ==
    call.corpus = "failed" => call.raised

\* C6: after a Submit either an error was shown or the session holds an
\* index with at least one entry.
C6_NeverSilentlyEmpty ==
    ui # "none" =>
        \/ ui = "error"
        \/ /\ vector_store # None
           /\ Len(Contents(vector_store[1], disk)) >= 1

\* C7: when the create or the append of the final step fails (and the
\* fallback itself does not), the fallback is attempted and the caller
\* receives a non-persisted index that holds all the staged documents.
C7_FallbackOnFinalFailure ==
    ( /\ "create" \in call.faults \/ "append" \in call.faults
      /\ "fallback" \notin call.faults )
    => /\ "fallback" \in call.steps
       /\ ~call.raised
       /\ call.handle # None
       /\ call.handle[1].persist_directory = None
       /\ [i \in DOMAIN call.handle[1].docs |-> Unembedded(call.handle[1].docs[i])]
              = call.staged

\* C8: a fallback index installed by Submit is not presented as a normally
\* loaded one: no success toast, no plato_loaded.
C8_DegradedReported ==
    ( /\ "fallback" \in call.steps /\ ~call.raised
      /\ vector_store = call.handle )
    => ~(ui \in {"toast_plato", "toast_pdfs"} /\ plato_loaded)

\* the provider names for which resolution fails under key
ResolutionFails(name, key) ==
    \/ name \notin MODEL_OPTIONS
    \/ name = Gemini /\ key \in {None, Some("")}

\* C9: a call whose embedding-function resolution fails raises and does
\* nothing else: no Chroma call is made, the persisted store and the corpus
\* cache are unchanged and no handle is returned.
C9_ResolutionFailureAborts ==
    [][ (CallStep /\ ResolutionFails(call'.provider, GOOGLE_API_KEY))
        => /\ call'.raised
           /\ call'.error.type = "ValueError"
           /\ call'.handle = None
           /\ call'.steps = {}
           /\ call'.staged = <<>>
           /\ disk' = disk
           /\ cache' = cache
      ]_vars

\* a call failed at resolution while the store held entries and the cache
\* was populated
C9_Witness ==
    /\ call.raised /\ call.steps = {}
    /\ ResolutionFails(call.provider, GOOGLE_API_KEY)
    /\ call.provider \in Providers
    /\ cache # None
    /\ \E p \in Providers : Index(p) # <<>>

\* C10: get_embeddings raises the unsupported-provider error for every name
\* outside the supported set, raises the missing-credential error for Gemini
\* exactly when the key is absent, and returns an embedding function for
\* every other supported name; the two errors differ.
C10_RegistryOutcomes ==
    probe.op = "get_embeddings" =>
        LET n == probe.name
            r == probe.out
            unsupported == ValueError("Unsupported provider: ", n)
            missing == ValueError("GOOGLE_API_KEY not found in environment variables", <<>>)
        IN  /\ unsupported # missing
            /\ n \notin MODEL_OPTIONS => (r.raised /\ r.error = unsupported)
            /\ n = Gemini =>
                  /\ (r.raised /\ r.error = missing) <=> probe.key \in {None, Some("")}
                  /\ ~r.raised <=> probe.key \notin {None, Some("")}
            /\ n \in MODEL_OPTIONS \ {Gemini} => ~r.raised
            /\ ~r.raised => r.value # ""

\* get_embeddings was applied to Gemini with the key unset
C10_Witness ==
    /\ probe.op = "get_embeddings"
    /\ probe.name = Gemini
    /\ probe.key = None
    /\ probe.out.raised
    /\ probe.out.error.text = "GOOGLE_API_KEY not found in environment variables"

\* the files of a call whose text was extracted: those before the first
\* file that cannot be read
RECURSIVE Extracted(_)
Extracted(files) ==
    IF files = <<>> THEN <<>>
    ELSE IF ~Head(files).readable THEN <<>>
    ELSE <<Head(files)>> \o Extracted(Tail(files))

\* number of entries that hold the document doc
Copies(entries, doc) ==
    Cardinality({i \in DOMAIN entries : Unembedded(entries[i]) = doc})

\* C11: uploads are staged on every call, with no presence check: a call
\* that returns and whose write to the store did not fail stages every chunk
\* of every extracted file and leaves one more copy of each of these chunks
\* in the provider's index than there was before, whatever the index held.
C11_UploadsAlwaysAppended ==
    [][ ( /\ CallStep
          /\ ~call'.raised
          /\ call'.faults \cap {"create", "append"} = {} )
        => LET p == call'.provider
               files == Extracted(call'.files)
               before == Collection(disk, Storage[p].persist_path,
                                    Storage[p].collection_name)
               after == Collection(disk', Storage[p].persist_path,
                                   Storage[p].collection_name)
           IN  \A i \in DOMAIN files :
                  LET docs == pdf_documents(files[i], p) IN
                  \A k \in DOMAIN docs :
                      /\ \E j \in DOMAIN call'.staged : call'.staged[j] = docs[k]
                      /\ Copies(after, docs[k]) = Copies(before, docs[k]) + 1
      ]_vars

\* the same two-chunk file was submitted in two calls and the index holds
\* two copies of each of its chunks
C11_Witness ==
    /\ call.files = <<FileB>> /\ ~call.raised
    /\ Len(pdf_documents(FileB, call.provider)) = 2
    /\ \A k \in DOMAIN pdf_documents(FileB, call.provider) :
          Copies(Index(call.provider), pdf_documents(FileB, call.provider)[k]) = 2

\* C12 as claimed: in every reachable state no two entries of a provider's
\* index have the same source and the same chunk_id.
C12_ChunkIdUniquePerSource ==
    \A p \in Providers :
        \A i, j \in DOMAIN Index(p) :
            ( /\ Index(p)[i].source = Index(p)[j].source
              /\ Index(p)[i].chunk_id = Index(p)[j].chunk_id ) => i = j

\* the documents of docs that come from source s, in order
SourceDocs(docs, s) == SelectSeq(docs, LAMBDA x : x.source = s)

\* C12, amended: chunk_id is unique within a single source among the
\* documents one call stages for distinct file names: the documents of each
\* source are numbered 0, 1, 2, ... in staging order.
C12_ChunkIdUniqueWithinStaging ==
    \A s \in {call.staged[i].source : i \in DOMAIN call.staged} :
        \A k \in DOMAIN SourceDocs(call.staged, s) :
            SourceDocs(call.staged, s)[k].chunk_id = k - 1

\* a call staged two corpus records and the two chunks of one file
C12_Witness ==
    /\ ~call.raised
    /\ Len(SourceDocs(call.staged, PLATON_SOURCE)) >= 2
    /\ Len(SourceDocs(call.staged, "uploaded_pdf_" \o FileB.name)) >= 2

\* C13: with sequential calls of get_plato_documents the corpus file is
\* parsed at most once in a process and every call returns the cached
\* sequence; once the cache is set, to the parsed records or after a failed
\* parse to the empty sequence, it keeps its value and nothing is parsed
\* again until the process ends, also when the file changes.
C13_ParsedAtMostOnce ==
    /\ [] ( /\ parses <= 1
            /\ cache # None => parses = 1
            /\ \A t \in Requests :
                  requests[t].result # None => requests[t].result = cache )
    /\ [][ cache # None =>
              \/ cache' = cache /\ parses' = parses
              \/ cache' = None /\ parses' = 0 ]_vars

\* the one parse failed, the file now holds records, and two calls have
\* returned the empty sequence
C13_Witness ==
    /\ parses = 1
    /\ cache = Some(<<>>)
    /\ corpus_file.status = "ok" /\ corpus_file.data # <<>>
    /\ \A t \in Requests : requests[t].result = Some(<<>>)

\* C14: when requests interleave inside get_plato_documents the corpus file
\* is parsed at most once and the requests obtain the same sequence.
C14_RaceFreeSingleParse ==
    /\ parses <= 1
    /\ \A t, u \in Requests :
          (requests[t].result # None /\ requests[u].result # None)
              => requests[t].result = requests[u].result

\* C15: the persisted store only grows: in every step each collection of
\* each directory is still there afterwards and its entries before the step
\* are, unchanged and in the same order, the first entries after it,
\* whether the call returned, raised or fell back.
C15_IndexOnlyGrows ==
    [][ \A path \in StoragePaths :
           \A name \in DOMAIN disk[path] :
              /\ name \in DOMAIN disk'[path]
              /\ Len(disk[path][name]) <= Len(disk'[path][name])
              /\ SubSeq(disk'[path][name], 1, Len(disk[path][name]))
                     = disk[path][name]
      ]_vars

\* a call appended its documents to an index that held older entries
C15_Witness ==
    /\ "append" \in call.steps \ call.faults
    /\ ~call.raised
    /\ call.staged # <<>>
    /\ Len(Index(call.provider)) > Len(call.staged)

\* C16: for every provider name normalize_collection_name returns a string
\* that starts with "platonic_", contains only lower-case ASCII letters,
\* digits, ".", "_" and "-", and begins and ends with an alphanumeric
\* character.
C16_CollectionNameWellFormed ==
    probe.op = "storage" =>
        LET c == probe.collection_name
            prefix == <<"p","l","a","t","o","n","i","c","_">>
        IN  /\ Len(c) >= Len(prefix)
            /\ SubSeq(c, 1, Len(prefix)) = prefix
            /\ \A i \in DOMAIN c :
                  c[i] \in Range(LowerCase) \cup Digits \cup {".", "_", "-"}
            /\ isalnum(c[1])
            /\ isalnum(c[Len(c)])

\* C17: the storage identity depends on the provider name alone: when two
\* successive calls with the same provider name, in the same process or
\* with a restart between them, both return a persisted index, the second
\* finds the store of the first and opens it, returns a handle with the
\* same path and the same collection identifier, and the entries the first
\* call returned are the first entries of what the second returns.
C17_SameNameSameIndex ==
    [][ ( /\ CallStep
          /\ call'.provider = call.provider
          /\ call.handle # None /\ call.handle[1].persist_directory # None
          /\ call'.handle # None /\ call'.handle[1].persist_directory # None )
        => /\ "open" \in call'.steps
           /\ call'.handle[1].persist_directory = call.handle[1].persist_directory
           /\ call'.handle[1].collection_name = call.handle[1].collection_name
           /\ Len(Contents(call.handle[1], disk))
                  <= Len(Contents(call'.handle[1], disk'))
           /\ SubSeq(Contents(call'.handle[1], disk'), 1,
                     Len(Contents(call.handle[1], disk)))
                  = Contents(call.handle[1], disk)
      ]_vars

\* an index with the corpus in it was opened by a call of a new process,
\* which has not parsed the corpus
C17_Witness ==
    /\ ~call.raised
    /\ call.steps = {"open", "scan"}
    /\ call.corpus = "present"
    /\ cache = None /\ parses = 0
    /\ Len(Index(call.provider)) >= 1

\* C18: whenever a request runs load_platon_json, it raises, and returns
\* nothing, if the corpus file is missing, is malformed or holds zero
\* entries; if it returns, the file was well formed and the result has at
\* least one record, one for each entry of the file in the file's order.
C18_LoadFailsOrReturnsRecords ==
    [][ \A t \in Requests :
           (requests[t].pc = "load" /\ requests'[t].pc = "store")
           => LET r == requests'[t].loaded[1] IN
              /\ ( \/ corpus_file.status \in {"missing", "malformed"}
                   \/ corpus_file.data = <<>> )
                 => (r.raised /\ r.error # NoError)
              /\ ~r.raised
                 => /\ corpus_file.status = "ok"
                    /\ Len(r.value) >= 1
                    /\ Len(r.value) = Len(corpus_file.data)
                    /\ \A i \in DOMAIN r.value :
                          /\ r.value[i].page_content = corpus_file.data[i].texto
                          /\ r.value[i].tipo = corpus_file.data[i].tipo
                          /\ r.value[i].source = PLATON_SOURCE
                          /\ r.value[i].chunk_id = i - 1
      ]_vars

\* load_platon_json has raised on a well-formed file of zero entries
C18_Witness ==
    \E t \in Requests :
        /\ requests[t].pc = "store"
        /\ requests[t].loaded[1].raised
        /\ requests[t].loaded[1].error = ValueError("No documents loaded from ", <<>>)
        /\ corpus_file.status = "ok" /\ corpus_file.data = <<>>

\* length of a text
TextLen(text) == text[3] - text[2]

\* C19 as claimed: get_text_chunks returns the empty sequence for the empty
\* text and, for every other text of at most chunk_size characters, exactly
\* one chunk equal to the text.
C19_ShortTextOneChunk ==
    probe.op = "get_text_chunks" =>
        /\ TextLen(probe.text) = 0 => probe.out = <<>>
        /\ (0 < TextLen(probe.text) /\ TextLen(probe.text) <= CHUNK_SIZE)
              => probe.out = <<probe.text>>

\* C21: a call that passes resolution and stages nothing leaves the entries
\* of every collection as they were; it raises only if the constructor of
\* the empty index raises, and otherwise returns a persisted handle on the
\* provider's collection whose entries are the entries the index had before
\* the call (none when no index existed); the index is constructed anew
\* exactly when it had no entries or could not be opened.
C21_NothingStagedNothingChanged ==
    [][ ( /\ CallStep
          /\ call'.staged = <<>>
          /\ ~ResolutionFails(call'.provider, GOOGLE_API_KEY) )
        => LET p == call'.provider
               before == Collection(disk, Storage[p].persist_path,
                                    Storage[p].collection_name)
           IN  /\ \A path \in StoragePaths :
                     \A name \in DOMAIN disk'[path] :
                        Collection(disk', path, name) = Collection(disk, path, name)
               /\ call'.raised <=> "init" \in call'.faults
               /\ "create" \notin call'.steps /\ "append" \notin call'.steps
               /\ ~call'.raised
                  => /\ call'.handle = Some(PersistedHandle(Storage[p].persist_path,
                                                        Storage[p].collection_name))
                     /\ Contents(call'.handle[1], disk') = before
                     /\ "init" \in call'.steps
                            <=> (before = <<>> \/ "open" \in call'.faults)
      ]_vars

\* a call found the corpus in the index, staged nothing and returned the
\* index
C21_Witness ==
    /\ ~call.raised
    /\ call.staged = <<>>
    /\ call.corpus = "present"
    /\ call.steps = {"open", "scan"}
    /\ Len(Contents(call.handle[1], disk)) >= 1

\* C22: when a call stages a non-empty sequence S and neither create nor
\* append raises, the call returns a persisted index that holds exactly the
\* entries E the provider's index had before the call followed by the
\* documents of S, embedded by the provider's model; it uses create when no
\* index was opened and append when one was.
C22_ReturnsExistingPlusStaged ==
    [][ ( /\ CallStep
          /\ call'.staged # <<>>
          /\ call'.faults \cap {"create", "append"} = {} )
        => LET p == call'.provider
               E == Collection(disk, Storage[p].persist_path,
                               Storage[p].collection_name)
               S == call'.staged
               opened == /\ path_nonempty(disk, Storage[p].persist_path)
                         /\ "open" \notin call'.faults
           IN  /\ ~call'.raised
               /\ call'.handle # None
               /\ call'.handle[1].persist_directory = Some(Storage[p].persist_path)
               /\ LET R == Contents(call'.handle[1], disk') IN
                  /\ Len(R) = Len(E) + Len(S)
                  /\ SubSeq(R, 1, Len(E)) = E
                  /\ \A i \in DOMAIN S :
                        /\ Unembedded(R[Len(E) + i]) = S[i]
                        /\ R[Len(E) + i].emb = get_embeddings(p, GOOGLE_API_KEY).value
               /\ "create" \in call'.steps <=> ~opened
               /\ "append" \in call'.steps <=> opened
      ]_vars

\* a call that found no index created one from the corpus and an upload
C22_Witness ==
    /\ ~call.raised
    /\ call.steps = {"create"}
    /\ Len(call.staged) = CorpusRecords + 1
    /\ CorpusRecords >= 1
    /\ Len(Contents(call.handle[1], disk)) = Len(call.staged)

\* an entry made from a record of load_platon_json
CorpusDerived(e) == "tipo" \in DOMAIN e

\* C23: the presence check and the corpus loader agree on the sentinel: in
\* every index exactly the entries made from corpus records have the source
\* "platon_analisis_nlp.json", whatever the names of the uploaded files;
\* and a call that scans the opened index finds the corpus present exactly
\* when one of the scanned entries was made from a corpus record.
C23_SentinelAgreement ==
    /\ [] ( \A p \in Providers : \A i \in DOMAIN Index(p) :
               CorpusDerived(Index(p)[i])
                   <=> Index(p)[i].source = "platon_analisis_nlp.json" )
    /\ [][ ( /\ CallStep
             /\ "scan" \in call'.steps \ call'.faults )
           => LET p == call'.provider
                  before == Collection(disk, Storage[p].persist_path,
                                       Storage[p].collection_name)
              IN  call'.corpus = "present"
                  <=> \E i \in 1..Min(SCAN_LIMIT, Len(before)) :
                          CorpusDerived(before[i])
         ]_vars

\* a call scanned an index that holds only the chunk of an upload named as
\* the corpus file, and did not find the corpus present
C23_Witness ==
    /\ "scan" \in call.steps
    /\ call.corpus # "present"
    /\ call.files = <<>>
    /\ Len(Index(call.provider)) = 1
    /\ Index(call.provider)[1].source = "uploaded_pdf_platon_analisis_nlp.json"

\* C24: for every key of MODEL_OPTIONS selected in the model selector, the
\* name with which a run of main() enters sidebar_file_upload, which is the
\* name that handler passes to get_or_create_vectorstore on Submit, is
\* accepted by get_embeddings: it does not raise the unsupported-provider
\* error for it
C24_SelectableProviderAccepted ==
    \A k \in MODEL_OPTIONS :
        ( /\ page.provider = render_model_selector(Some(k), page.model).model_provider
          /\ page.error # "KeyError" )
            => LET r == get_embeddings(page.provider, GOOGLE_API_KEY)
               IN  ~( r.raised
                      /\ r.error = ValueError("Unsupported provider: ", page.provider) )

\* an index handle built for provider p: the persisted collection of p, or
\* the in-memory fallback created for p
BuiltFor(h, p) ==
    \/ /\ h.persist_directory = Some(Storage[p].persist_path)
       /\ h.collection_name = Storage[p].collection_name
    \/ /\ h.persist_directory = None
       /\ h.collection_name =
              Storage[p].collection_name \o <<"_","f","a","l","l","b","a","c","k">>

\* C25: after the provider-change check of a render with a model selected,
\* a non-null session vector_store is the index built for the selected
\* provider, and every answer in the chat history was retrieved from the
\* index of the provider that was selected when the question was asked
C25_IndexOfSelectedProvider ==
    /\ (page.event = "provider" /\ page.model /\ vector_store # None)
           => BuiltFor(vector_store[1], page.provider)
    /\ \A i \in DOMAIN chat_history :
           BuiltFor(chat_history[i].retriever, chat_history[i].model_provider)

\* C26: while the session is as a successful Submit with no PDF left it (the
\* Plato base loaded, no submitted PDF, an index in the session, the uploader
\* empty), the question input that handle_user_input renders with a model
\* selected is enabled
C26_PlatoOnlyQuestionsEnabled ==
    ( /\ page.event \in {"input", "question"} /\ page.model
      /\ page.files = <<>>
      /\ plato_loaded /\ pdf_files = Some(<<>>) /\ vector_store # None )
        => page.question_enabled

C28_FailedSubmitKeepsSessionAndPage ==
    [][ (page'.event = "submit" /\ page'.submit = "raised")
            => /\ vector_store' = vector_store
               /\ pdf_files' = pdf_files
               /\ unsubmitted_files' = unsubmitted_files
               /\ plato_loaded' = plato_loaded
               /\ ui' = "error"
               /\ page'.completed
      ]_vars

\* C29: a call of sidebar_utilities with Reset, Clear Chat or Undo pressed,
\* and the session setup of the run that st.rerun() starts after it, change
\* neither the persisted store nor the corpus cache nor the corpus file;
\* Undo removes
\* the last entry of the chat history, does nothing to an empty history and
\* keeps the rest of the session; and every later successful Submit returns
\* the index of its provider with the entries persisted before it in front
C29_UtilitiesChangeSessionOnly ==
    /\ [][ page'.event \in UtilityButtons \cup {"setup"}
               => /\ disk' = disk /\ cache' = cache /\ parses' = parses
                  /\ corpus_file' = corpus_file
                  /\ page'.event = "undo"
                       => /\ chat_history' =
                                 IF chat_history = <<>> THEN <<>>
                                 ELSE SubSeq(chat_history, 1, Len(chat_history) - 1)
                          /\ UNCHANGED <<vector_store, pdf_files, plato_loaded,
                                         last_provider, uploader_key>>
         ]_vars
    /\ [][ (page'.event = "submit" /\ page'.submit = "ok")
               => LET before == Index(page'.provider)
                      after == Contents(vector_store'[1], disk')
                  IN  /\ BuiltFor(vector_store'[1], page'.provider)
                      /\ Len(after) >= Len(before)
                      /\ SubSeq(after, 1, Len(before)) = before
         ]_vars

\* Undo was pressed with two entries in the chat history and removed one,
\* and the session still holds its index with the entries persisted in it
C29_Witness ==
    /\ page.event = "undo" /\ Len(chat_history) = 1
    /\ vector_store # None
    /\ Len(Contents(vector_store[1], disk)) >= 1

====
